---- MODULE Spec2Model ----
(***************************************************************************)
(* Amara QUO: the email processing orchestrator (EmailProcessor), the      *)
(* key-value email store (emailStore) it writes through, and the HTTP      *)
(* routes that call them.                                                  *)
(*                                                                         *)
(* The server is a single-threaded cooperative runtime: every request is a *)
(* task that runs until its next await.  Each action below is one such     *)
(* run: it performs the store command (or provider call) the task was      *)
(* waiting on and then the synchronous code up to the next await.          *)
(***************************************************************************)
EXTENDS FiniteSets, Integers, Sequences, TLC

\* ------------------------------------------------------------------------
\* Bounds of the model
\* ------------------------------------------------------------------------

\* number of route invocations (process, retry, reset, queue, and the
\* manual add of a record that is already stored) in one behaviour
MaxOps == 2

\* how many requests of one LLM call the provider is ready to answer
MaxRequests == 4

\* how many processEmail / retryEmail calls are made on the record of the
\* delivery model, one after the other
MaxCalls == 3

\* longest recipient address and longest block-list or allow-list entry,
\* in characters, the delivery gateway is tried with
MaxAddressLen == 3

MaxPatternLen == 2

\* the longest markdown text handed to the renderer, in characters
MaxMarkdownLen == 5

\* the largest historyId of a record; the number of ingestion-side
\* operations in one behaviour
MaxHistoryId == 2
MaxIngestOps == 4

\* record identifiers a request may name; NoId is the id of no record
EmailIds == {1, 2}

NoId == 0

\* request slots: how many requests the server may have in flight at once
Tasks == {1, 2}

\* what a successful LLM call for a record may return: a content, which the
\* LLM client guarantees to be non-empty (llm-service.ts:78), and the token
\* counts; the prompt tokens count the record's text, so they differ from
\* one record to another
LLMResponses(id) ==
    { [content |-> "r",
       tokenUsage |-> [prompt |-> id, completion |-> 1, total |-> id + 1]] }

\* ------------------------------------------------------------------------
\* Values
\* ------------------------------------------------------------------------

\* an undefined field / a missing key
Absent == "absent"

NoUsage == [prompt |-> -1, completion |-> -1, total |-> -1]

\* error classes of the LLM client; NoCode is an error without a code
ErrorCodes == {"rate_limit", "api_error", "invalid_request", "timeout",
               "empty_response"}

NoCode == "none"

\* the value kept under gmail:email:<id>:status; status = Absent stands for
\* a missing key (kv.get(...) || {})
EmptyEntry ==
    [status |-> Absent, processedAt |-> Absent, error |-> Absent,
     response |-> Absent, tokenUsage |-> NoUsage, processingTime |-> Absent,
     deliveryStatus |-> Absent, deliveredAt |-> Absent]

\* the optional metadata argument of updateEmailStatus, all fields undefined
NoMetadata ==
    [processedAt |-> Absent, error |-> Absent, response |-> Absent,
     tokenUsage |-> NoUsage, processingTime |-> Absent,
     deliveryStatus |-> Absent, deliveredAt |-> Absent]

ZeroStats ==
    [totalPrompt |-> 0, totalCompletion |-> 0, totalTokens |-> 0,
     emailsProcessed |-> 0]

VARIABLES
    emailKey,          \* ids with a record under gmail:email:<id>
    allEmails,         \* the set gmail:email:all
    statusKey,         \* id -> value of gmail:email:<id>:status
    responseKey,       \* id -> value of gmail:email:<id>:response
    processingQueue,   \* members of gmail:email:processing:queue
    tokenUsageKey,     \* value of gmail:stats:token_usage
    isProcessing,      \* EmailProcessor.isProcessing
    currentlyProcessing, \* EmailProcessor.currentlyProcessing
    task,              \* request slot -> the request's position and locals
    opsStarted         \* route invocations so far

storeVars == <<emailKey, allEmails, statusKey, responseKey, processingQueue,
               tokenUsageKey>>

\* one call of the LLM client, followed request by request (see "The LLM
\* clients" below)
VARIABLES
    answers,           \* what the provider answered to request 1, 2, ...
    llm                \* client -> the position of its processEmail call

llmVars == <<answers, llm>>

\* one record handled by one orchestrator call at a time (see "The
\* orchestrator with the delivery gateway" below)
VARIABLES
    build,             \* which EmailProcessor: processor.ts or part_008
    configured,        \* emailService.isConfigured()
    stored,            \* the record exists under gmail:email:<id>
    entry,             \* the record's gmail:email:<id>:status value
    run,               \* the call in progress and its locals
    trail,             \* the statuses the call has written, in order
    calls              \* calls made so far

deliveryVars == <<build, configured, stored, entry, run, trail, calls>>

\* one sendResponse call of the delivery gateway (see "The delivery
\* gateway" below)
VARIABLES
    emailService,      \* the EmailService fields set by the constructor
    toEmail,           \* the recipient address, a sequence of characters
    sendCall           \* the call: its position, result, and transmission

gatewayVars == <<emailService, toEmail, sendCall>>

\* the variables of the models that stand beside the server, the LLM call
\* and the orchestrator call
\* one renderToEmailHtml call of the markdown renderer: the markdown it is
\* given, whether it has returned, the blocks of tokenizeBlocks and the
\* HTML fragments it joins
VARIABLES
    rendering

rendererVars == <<rendering>>

\* ingestion: the historyId of the record under gmail:email:<id> (0 without
\* a record), the watermark gmail:last_history_id (0 when unset), the
\* sorted set gmail:emails:by_history (score of each id, 0 for no member),
\* and the operations so far with the name of the last one
VARIABLES
    historyId,
    lastHistoryId,
    byHistory,
    ingestLog

ingestVars == <<historyId, lastHistoryId, byHistory, ingestLog>>

auxVars == <<gatewayVars, rendererVars, ingestVars>>

serverVars == <<emailKey, allEmails, statusKey, responseKey, processingQueue,
                tokenUsageKey, isProcessing, currentlyProcessing, task,
                opsStarted>>

vars == <<emailKey, allEmails, statusKey, responseKey, processingQueue,
          tokenUsageKey, isProcessing, currentlyProcessing, task, opsStarted,
          answers, llm, build, configured, stored, entry, run, trail, calls,
          emailService, toEmail, sendCall, rendering, historyId,
          lastHistoryId, byHistory, ingestLog>>

\* ------------------------------------------------------------------------
\* emailStore (kv-client.ts)
\* ------------------------------------------------------------------------

\* the response getEmail returns: responseData || statusData?.response
GetEmailResponse(id) ==
    IF responseKey[id] # Absent THEN responseKey[id] ELSE statusKey[id].response

\* the status getEmail returns: statusData?.status || 'pending'
GetEmailStatus(id) ==
    IF statusKey[id].status # Absent THEN statusKey[id].status ELSE "pending"

\* StatusData with the response spread left out: the response reaches the
\* separate key only
StatusData_NoResponse(cur, status, md) ==
    [status |-> status,
     processedAt |-> IF md.processedAt # Absent THEN md.processedAt
                     ELSE cur.processedAt,
     error |-> IF md.error # Absent THEN md.error ELSE cur.error,
     response |-> cur.response,
     tokenUsage |-> IF md.tokenUsage # NoUsage THEN md.tokenUsage
                    ELSE cur.tokenUsage,
     processingTime |-> IF md.processingTime # Absent THEN md.processingTime
                        ELSE cur.processingTime,
     deliveryStatus |-> IF md.deliveryStatus # Absent THEN md.deliveryStatus
                        ELSE cur.deliveryStatus,
     deliveredAt |-> IF md.deliveredAt # Absent THEN md.deliveredAt
                     ELSE cur.deliveredAt]

\* statusData of updateEmailStatus: the entry read, the new status, and every
\* metadata field that is not undefined
StatusData(cur, status, md) ==
    [status |-> status,
     processedAt |-> IF md.processedAt # Absent THEN md.processedAt
                     ELSE cur.processedAt,
     error |-> IF md.error # Absent THEN md.error ELSE cur.error,
     response |-> IF md.response # Absent THEN md.response ELSE cur.response,
     tokenUsage |-> IF md.tokenUsage # NoUsage THEN md.tokenUsage
                    ELSE cur.tokenUsage,
     processingTime |-> IF md.processingTime # Absent THEN md.processingTime
                        ELSE cur.processingTime,
     deliveryStatus |-> IF md.deliveryStatus # Absent THEN md.deliveryStatus
                        ELSE cur.deliveryStatus,
     deliveredAt |-> IF md.deliveredAt # Absent THEN md.deliveredAt
                     ELSE cur.deliveredAt]

\* the aggregate updateTokenUsage writes from the one it read
AddUsage(current, usage) ==
    [totalPrompt |-> current.totalPrompt + usage.prompt,
     totalCompletion |-> current.totalCompletion + usage.completion,
     totalTokens |-> current.totalTokens + usage.total,
     emailsProcessed |-> current.emailsProcessed + 1]

\* ------------------------------------------------------------------------
\* Requests
\* ------------------------------------------------------------------------

IdleTask ==
    [kind |-> "idle", pc |-> "idle", id |-> NoId,
     status |-> Absent, md |-> NoMetadata, cur |-> EmptyEntry,
     ret |-> Absent, stats |-> ZeroStats,
     rerun |-> FALSE, previousStatus |-> Absent, previousResponse |-> Absent,
     pendingIds |-> <<>>, readPending |-> FALSE, results |-> <<>>,
     llmCalled |-> FALSE, outcome |-> Absent]

\* the two LLM clients: llm-service.ts (responses protocol) and
\* llm-service-gpt-4.ts (chat-completion protocol)
Clients == {"gpt5", "gpt4"}

\* a processEmail call of an LLM client that has issued no request yet:
\* callGPT5(input) / callGPT4API(messages) start with attempt = 1
IdleClient ==
    [attempt |-> 1, requests |-> 0, delays |-> <<>>, result |-> "running"]

\* the two EmailProcessor sources: processor.ts, which stops at the stored
\* response, and part_008, which sends the response through the delivery
\* gateway
Builds == {"processor", "delivery"}

\* no orchestrator call in progress
IdleRun ==
    [op |-> "none", pc |-> "idle", startStatus |-> Absent, now |-> Absent,
     thrown |-> Absent, llmResult |-> Absent, send |-> "none",
     status |-> Absent, md |-> NoMetadata, next |-> Absent,
     returned |-> Absent]

\* the server and the LLM call before anything has happened
InitServer ==
    /\ answers = <<>>
    /\ llm = [c \in Clients |-> IdleClient]
    /\ emailKey = {}
    /\ allEmails = {}
    /\ statusKey = [i \in EmailIds |-> EmptyEntry]
    /\ responseKey = [i \in EmailIds |-> Absent]
    /\ processingQueue = {}
    /\ tokenUsageKey = ZeroStats
    /\ isProcessing = FALSE
    /\ currentlyProcessing = {}
    /\ task = [t \in Tasks |-> IdleTask]
    /\ opsStarted = 0

\* a sendResponse call that has not started
IdleSend ==
    [pc |-> "idle", transmitted |-> FALSE, success |-> FALSE,
     error |-> Absent]

\* the delivery gateway at rest: sending disabled, nothing to send
RestGateway ==
    /\ emailService = [enabled |-> FALSE, resend |-> FALSE,
                       testMode |-> FALSE, blockedDomains |-> {},
                       allowedDomains |-> {}]
    /\ toEmail = <<>>
    /\ sendCall = IdleSend

\* the renderer has been given nothing
RestRenderer ==
    rendering = [markdown |-> <<>>, done |-> FALSE, blocks |-> <<>>,
                 html |-> <<>>]

\* nothing has arrived and nothing has been ingested
RestIngest ==
    /\ historyId = [i \in EmailIds |-> 0]
    /\ lastHistoryId = 0
    /\ byHistory = [i \in EmailIds |-> 0]
    /\ ingestLog = [ops |-> 0, last |-> "none"]

InitAux == RestGateway /\ RestRenderer /\ RestIngest

\* the delivery model at rest
InitRun ==
    /\ entry = EmptyEntry
    /\ run = IdleRun
    /\ trail = <<>>
    /\ calls = 0

\* no delivery run has been set up
RestDelivery ==
    /\ build = "processor"
    /\ configured = FALSE
    /\ stored = FALSE
    /\ InitRun

Init == InitServer /\ InitAux /\ RestDelivery

\* emailStore.storeEmail, as called by the ingestion routes.  Record ids are
\* interchangeable, so new records take the ids in increasing order; storing
\* a record that is already there (the manual-add route does not look) is a
\* route invocation on an existing record and counts as one.
StoreEmail(id) ==
    /\ \A j \in EmailIds : j < id => j \in emailKey
    /\ IF id \in emailKey
       THEN opsStarted < MaxOps /\ opsStarted' = opsStarted + 1
       ELSE opsStarted' = opsStarted
    /\ emailKey' = emailKey \cup {id}
    /\ statusKey' = [statusKey EXCEPT ![id] =
                        [EmptyEntry EXCEPT !.status = "pending"]]
    /\ allEmails' = allEmails \cup {id}
    /\ UNCHANGED <<responseKey, processingQueue, tokenUsageKey, isProcessing,
                   currentlyProcessing, task>>

\* a new request takes the first free slot (slots are interchangeable)
FreeSlot(t) ==
    /\ task[t].pc = "idle"
    /\ \A u \in Tasks : u < t => task[u].pc # "idle"

\* ------------------------------------------------------------------------
\* EmailProcessor (processor.ts): helpers
\* ------------------------------------------------------------------------

\* ShouldRetry that finds every error retryable
ShouldRetry_Always(code) == TRUE

\* EmailProcessor.shouldRetry
ShouldRetry(code) ==
    IF code = NoCode THEN TRUE ELSE code # "invalid_request"

\* the status the catch block of processEmail writes
FailureStatus(code) ==
    IF ShouldRetry(code) THEN "failed" ELSE "manual-review"

\* EmailProcessor.getErrorMessage: error.message, which for a classified
\* error is the LLM client's text for it
GetErrorMessage(code) ==
    IF code = NoCode THEN "Email not found" ELSE "LLM error"

\* the metadata the catch block of processEmail writes
FailureMetadata(message) ==
    [NoMetadata EXCEPT !.error = message, !.processedAt = "t"]

\* the metadata processEmail writes with status completed
CompletedMetadata(content, usage) ==
    [NoMetadata EXCEPT !.response = content, !.processedAt = "t",
                       !.tokenUsage = usage, !.processingTime = "ms"]

\* the metadata retryEmail passes: { error: undefined }
RetryMetadata ==
    [NoMetadata EXCEPT !.error = Absent]

\* the metadata the reset route passes: every field undefined
ResetMetadata ==
    [NoMetadata EXCEPT !.error = Absent, !.response = Absent,
                       !.processedAt = Absent, !.tokenUsage = NoUsage,
                       !.processingTime = Absent]

\* a request that starts updateEmailStatus(id, status, md) and continues at
\* ret when the call has returned
CallUpdate(tk, status, md, ret) ==
    [tk EXCEPT !.pc = "ues_read", !.status = status, !.md = md, !.ret = ret]

\* the catch block of processEmail
Catch(tk, code) ==
    CallUpdate(tk, FailureStatus(code), FailureMetadata(GetErrorMessage(code)),
               "pe_return")

\* the code that runs when updateEmailStatus has returned, up to the next
\* await of the caller
Returned(tk) ==
    LET back == [tk EXCEPT !.status = Absent, !.md = NoMetadata,
                           !.cur = EmptyEntry, !.stats = ZeroStats,
                           !.ret = Absent] IN
    CASE tk.ret = "pe_llm" ->
           [back EXCEPT !.pc = "llm", !.llmCalled = TRUE]
      [] tk.ret = "pe_return" ->
           IF tk.kind = "sweep"
           THEN [back EXCEPT !.pc = "sw_delay",
                             !.results = Append(@, <<tk.id, tk.status>>)]
           ELSE [back EXCEPT !.pc = "done", !.outcome = tk.status]
      [] tk.ret = "retry_pe" ->
           [back EXCEPT !.pc = "pe_get"]
      [] tk.ret = "reset_ret" ->
           IF tk.rerun
           THEN [back EXCEPT !.pc = "pe_get"]
           ELSE [back EXCEPT !.pc = "done", !.outcome = "reset"]

\* updateEmailStatus after the processing-queue command
AfterQueue(tk) ==
    IF tk.md.tokenUsage # NoUsage
    THEN [tk EXCEPT !.pc = "tok_read"]
    ELSE Returned(tk)

\* updateEmailStatus after the response command
AfterResponse(tk) ==
    IF tk.status = "processing"
    THEN [tk EXCEPT !.pc = "ues_zadd"]
    ELSE IF tk.status = "completed" \/ tk.status = "failed"
         THEN [tk EXCEPT !.pc = "ues_zrem"]
         ELSE AfterQueue(tk)

\* updateEmailStatus after the status entry is written
AfterSet(tk) ==
    IF tk.md.response # Absent
    THEN [tk EXCEPT !.pc = "ues_resp"]
    ELSE AfterResponse(tk)

\* ------------------------------------------------------------------------
\* emailStore.updateEmailStatus, one action per store command
\* ------------------------------------------------------------------------

\* const currentStatus = await kv.get(KEYS.EMAIL_STATUS(id)) || {}
UpdateRead(t) ==
    /\ task[t].pc = "ues_read"
    /\ task' = [task EXCEPT ![t].cur = statusKey[task[t].id],
                            ![t].pc = "ues_set"]
    /\ UNCHANGED <<storeVars, isProcessing, currentlyProcessing, opsStarted>>

\* await kv.set(KEYS.EMAIL_STATUS(id), statusData)
UpdateSet(t) ==
    /\ task[t].pc = "ues_set"
    /\ statusKey' = [statusKey EXCEPT ![task[t].id] =
                        StatusData(task[t].cur, task[t].status, task[t].md)]
    /\ task' = [task EXCEPT ![t] = AfterSet(task[t])]
    /\ UNCHANGED <<emailKey, allEmails, responseKey, processingQueue,
                   tokenUsageKey, isProcessing, currentlyProcessing,
                   opsStarted>>

\* the separate response key: set for a non-empty response, deleted for an
\* empty one (the verification read that follows a completed write changes
\* nothing and is folded in)
UpdateResponse(t) ==
    /\ task[t].pc = "ues_resp"
    /\ responseKey' = [responseKey EXCEPT ![task[t].id] =
                          IF task[t].md.response # "" THEN task[t].md.response
                          ELSE Absent]
    /\ task' = [task EXCEPT ![t] = AfterResponse(task[t])]
    /\ UNCHANGED <<emailKey, allEmails, statusKey, processingQueue,
                   tokenUsageKey, isProcessing, currentlyProcessing,
                   opsStarted>>

\* kv.zadd(KEYS.PROCESSING_QUEUE, ...) for status processing
UpdateZadd(t) ==
    /\ task[t].pc = "ues_zadd"
    /\ processingQueue' = processingQueue \cup {task[t].id}
    /\ task' = [task EXCEPT ![t] = AfterQueue(task[t])]
    /\ UNCHANGED <<emailKey, allEmails, statusKey, responseKey,
                   tokenUsageKey, isProcessing, currentlyProcessing,
                   opsStarted>>

\* kv.zrem(KEYS.PROCESSING_QUEUE, id) for status completed or failed
UpdateZrem(t) ==
    /\ task[t].pc = "ues_zrem"
    /\ processingQueue' = processingQueue \ {task[t].id}
    /\ task' = [task EXCEPT ![t] = AfterQueue(task[t])]
    /\ UNCHANGED <<emailKey, allEmails, statusKey, responseKey,
                   tokenUsageKey, isProcessing, currentlyProcessing,
                   opsStarted>>

\* updateTokenUsage: const current = await kv.get(KEYS.TOKEN_USAGE) || zeros
TokenRead(t) ==
    /\ task[t].pc = "tok_read"
    /\ task' = [task EXCEPT ![t].stats = tokenUsageKey, ![t].pc = "tok_set"]
    /\ UNCHANGED <<storeVars, isProcessing, currentlyProcessing, opsStarted>>

\* updateTokenUsage: await kv.set(KEYS.TOKEN_USAGE, current + usage)
TokenSet(t) ==
    /\ task[t].pc = "tok_set"
    /\ tokenUsageKey' = AddUsage(task[t].stats, task[t].md.tokenUsage)
    /\ task' = [task EXCEPT ![t] = Returned(task[t])]
    /\ UNCHANGED <<emailKey, allEmails, statusKey, responseKey,
                   processingQueue, isProcessing, currentlyProcessing,
                   opsStarted>>

\* ------------------------------------------------------------------------
\* EmailProcessor.processEmail
\* ------------------------------------------------------------------------

\* POST /api/process/[id]: emailProcessor.processEmail(id)
ProcessCall(t, id) ==
    /\ FreeSlot(t)
    /\ opsStarted < MaxOps
    /\ opsStarted' = opsStarted + 1
    /\ task' = [task EXCEPT ![t] =
                  [IdleTask EXCEPT !.kind = "process", !.pc = "pe_get",
                                   !.id = id]]
    /\ UNCHANGED <<storeVars, isProcessing, currentlyProcessing>>

\* const email = await emailStore.getEmail(emailId); a missing record throws
\* into the catch block, a found one starts updateEmailStatus(processing)
ProcessGetEmail(t) ==
    /\ task[t].pc = "pe_get"
    /\ task' = [task EXCEPT ![t] =
                  IF task[t].id \in emailKey
                  THEN CallUpdate(task[t], "processing", NoMetadata, "pe_llm")
                  ELSE Catch(task[t], NoCode)]
    /\ UNCHANGED <<storeVars, isProcessing, currentlyProcessing, opsStarted>>

\* llmService.processEmail(email) returns a response
LLMSuccess(t) ==
    /\ task[t].pc = "llm"
    /\ \E llmResponse \in LLMResponses(task[t].id) :
          task' = [task EXCEPT ![t] =
                     CallUpdate(task[t], "completed",
                                CompletedMetadata(llmResponse.content,
                                                  llmResponse.tokenUsage),
                                "pe_return")]
    /\ UNCHANGED <<storeVars, isProcessing, currentlyProcessing, opsStarted>>

\* llmService.processEmail(email) fails with a classified error
LLMFailure(t) ==
    /\ task[t].pc = "llm"
    /\ \E code \in ErrorCodes :
          task' = [task EXCEPT ![t] = Catch(task[t], code)]
    /\ UNCHANGED <<storeVars, isProcessing, currentlyProcessing, opsStarted>>

\* the route sends its HTTP response and the request slot is free again
Return(t) ==
    /\ task[t].pc = "done"
    /\ task' = [task EXCEPT ![t] = IdleTask]
    /\ UNCHANGED <<storeVars, isProcessing, currentlyProcessing, opsStarted>>

\* ------------------------------------------------------------------------
\* EmailProcessor.retryEmail
\* ------------------------------------------------------------------------

\* POST /api/process/retry/[id]: emailProcessor.retryEmail(id)
RetryCall(t, id) ==
    /\ FreeSlot(t)
    /\ opsStarted < MaxOps
    /\ opsStarted' = opsStarted + 1
    /\ task' = [task EXCEPT ![t] =
                  [IdleTask EXCEPT !.kind = "retry", !.pc = "rt_get",
                                   !.id = id]]
    /\ UNCHANGED <<storeVars, isProcessing, currentlyProcessing>>

\* CanRetry with the status test reduced to "not pending"
CanRetry_NotPending(id) ==
    /\ id \in emailKey
    /\ GetEmailStatus(id) # "pending"

\* retryEmail may go on: the record exists and is failed or manual-review
CanRetry(id) ==
    /\ id \in emailKey
    /\ GetEmailStatus(id) \in {"failed", "manual-review"}

\* const email = await emailStore.getEmail(emailId), then the two throws or
\* updateEmailStatus(emailId, 'pending', { error: undefined })
RetryGetEmail(t) ==
    /\ task[t].pc = "rt_get"
    /\ task' = [task EXCEPT ![t] =
                  IF CanRetry(task[t].id)
                  THEN CallUpdate(task[t], "pending", RetryMetadata,
                                  "retry_pe")
                  ELSE [task[t] EXCEPT !.pc = "done", !.outcome = "error"]]
    /\ UNCHANGED <<storeVars, isProcessing, currentlyProcessing, opsStarted>>

\* ------------------------------------------------------------------------
\* POST /api/process/reset/[id], alone or as the first half of a rerun
\* ------------------------------------------------------------------------

\* the reset route is called; rerun tells whether the caller is the
\* dashboard's handleRerunEmail, which is offered for a completed record and
\* calls the process route when the reset has succeeded
ResetCall(t, id, rerun) ==
    /\ FreeSlot(t)
    /\ rerun => id \in emailKey /\ GetEmailStatus(id) = "completed"
    /\ opsStarted < MaxOps
    /\ opsStarted' = opsStarted + 1
    /\ task' = [task EXCEPT ![t] =
                  [IdleTask EXCEPT !.kind = "reset", !.pc = "rs_get",
                                   !.id = id, !.rerun = rerun]]
    /\ UNCHANGED <<storeVars, isProcessing, currentlyProcessing>>

\* const email = await emailStore.getEmail(id): 404 for a missing record,
\* else updateEmailStatus(id, 'pending', { every field undefined })
ResetGetEmail(t) ==
    /\ task[t].pc = "rs_get"
    /\ task' = [task EXCEPT ![t] =
                  IF task[t].id \in emailKey
                  THEN [CallUpdate(task[t], "pending", ResetMetadata,
                                   "reset_ret")
                          EXCEPT !.previousStatus = GetEmailStatus(task[t].id),
                                 !.previousResponse =
                                     GetEmailResponse(task[t].id)]
                  ELSE [task[t] EXCEPT !.pc = "done", !.outcome = "error"]]
    /\ UNCHANGED <<storeVars, isProcessing, currentlyProcessing, opsStarted>>

\* ------------------------------------------------------------------------
\* EmailProcessor.processQueue
\* ------------------------------------------------------------------------

\* the ids getPendingEmails returns: members of the all-emails set whose
\* status entry is missing or pending
PendingEmails ==
    {i \in allEmails : statusKey[i].status = Absent
                       \/ statusKey[i].status = "pending"}

\* the orders in which smembers may list a set of ids
Orderings(S) ==
    {q \in UNION {[1..n -> S] : n \in 0..Cardinality(S)} :
        /\ Len(q) = Cardinality(S)
        /\ \A i, j \in 1..Len(q) : i # j => q[i] # q[j]}

\* the for loop skips ids that are in the working set
RECURSIVE DropSkipped(_, _)
DropSkipped(ids, working) ==
    IF ids = <<>> THEN <<>>
    ELSE IF Head(ids) \in working THEN DropSkipped(Tail(ids), working)
         ELSE ids

\* SweepRejected with the guard left out
SweepRejected_Never == FALSE

\* the guard at the head of processQueue
SweepRejected == isProcessing

\* the for loop of processQueue from its head to the next await: the next id
\* that is not skipped is added to the working set and processEmail is
\* called for it; with no id left the finally clears the sweep flag
SweepLoop(t, tk, ids, working) ==
    LET rest == DropSkipped(ids, working) IN
    IF rest = <<>>
    THEN /\ task' = [task EXCEPT ![t] =
                       [tk EXCEPT !.pc = "done", !.pendingIds = <<>>,
                                  !.outcome = "swept"]]
         /\ currentlyProcessing' = working
         /\ isProcessing' = FALSE
    ELSE /\ task' = [task EXCEPT ![t] =
                       [tk EXCEPT !.pc = "pe_get", !.id = Head(rest),
                                  !.pendingIds = Tail(rest)]]
         /\ currentlyProcessing' = working \cup {Head(rest)}
         /\ isProcessing' = isProcessing

\* POST /api/process/queue: emailProcessor.processQueue(); a call during a
\* sweep returns [] at once, another sets the flag and reads the pending ids
ProcessQueueCall(t) ==
    /\ FreeSlot(t)
    /\ opsStarted < MaxOps
    /\ opsStarted' = opsStarted + 1
    /\ IF SweepRejected
       THEN /\ task' = [task EXCEPT ![t] =
                          [IdleTask EXCEPT !.kind = "sweep", !.pc = "done",
                                           !.outcome = "swept"]]
            /\ isProcessing' = isProcessing
       ELSE /\ task' = [task EXCEPT ![t] =
                          [IdleTask EXCEPT !.kind = "sweep",
                                           !.pc = "sw_pending"]]
            /\ isProcessing' = TRUE
    /\ UNCHANGED <<storeVars, currentlyProcessing>>

\* const pendingIds = await emailStore.getPendingEmails(), then the loop
SweepGetPending(t) ==
    /\ task[t].pc = "sw_pending"
    /\ \E ids \in Orderings(PendingEmails) :
          SweepLoop(t, [task[t] EXCEPT !.readPending = TRUE], ids,
                    currentlyProcessing)
    /\ UNCHANGED <<storeVars, opsStarted>>

\* await this.delay(1000) is over: the finally removes the id from the
\* working set and the loop goes on
SweepDelayOver(t) ==
    /\ task[t].pc = "sw_delay"
    /\ SweepLoop(t, task[t], task[t].pendingIds,
                 currentlyProcessing \ {task[t].id})
    /\ UNCHANGED <<storeVars, opsStarted>>

\* ------------------------------------------------------------------------
\* The system
\* ------------------------------------------------------------------------

\* every step of the server leaves the LLM call of the client model alone
Next ==
    \/ (\E id \in EmailIds : StoreEmail(id))
          /\ UNCHANGED <<llmVars, deliveryVars, auxVars>>
    \/ (\E t \in Tasks, id \in EmailIds : ProcessCall(t, id))
          /\ UNCHANGED <<llmVars, deliveryVars, auxVars>>
    \/ (\E t \in Tasks, id \in EmailIds : RetryCall(t, id))
          /\ UNCHANGED <<llmVars, deliveryVars, auxVars>>
    \/ (\E t \in Tasks, id \in EmailIds, rerun \in BOOLEAN :
          ResetCall(t, id, rerun))
          /\ UNCHANGED <<llmVars, deliveryVars, auxVars>>
    \/ (\E t \in Tasks : ProcessQueueCall(t))
          /\ UNCHANGED <<llmVars, deliveryVars, auxVars>>
    \/ (\E t \in Tasks : ProcessGetEmail(t))
          /\ UNCHANGED <<llmVars, deliveryVars, auxVars>>
    \/ (\E t \in Tasks : LLMSuccess(t))
          /\ UNCHANGED <<llmVars, deliveryVars, auxVars>>
    \/ (\E t \in Tasks : LLMFailure(t))
          /\ UNCHANGED <<llmVars, deliveryVars, auxVars>>
    \/ (\E t \in Tasks : RetryGetEmail(t))
          /\ UNCHANGED <<llmVars, deliveryVars, auxVars>>
    \/ (\E t \in Tasks : ResetGetEmail(t))
          /\ UNCHANGED <<llmVars, deliveryVars, auxVars>>
    \/ (\E t \in Tasks : SweepGetPending(t))
          /\ UNCHANGED <<llmVars, deliveryVars, auxVars>>
    \/ (\E t \in Tasks : SweepDelayOver(t))
          /\ UNCHANGED <<llmVars, deliveryVars, auxVars>>
    \/ (\E t \in Tasks : UpdateRead(t))
          /\ UNCHANGED <<llmVars, deliveryVars, auxVars>>
    \/ (\E t \in Tasks : UpdateSet(t))
          /\ UNCHANGED <<llmVars, deliveryVars, auxVars>>
    \/ (\E t \in Tasks : UpdateResponse(t))
          /\ UNCHANGED <<llmVars, deliveryVars, auxVars>>
    \/ (\E t \in Tasks : UpdateZadd(t))
          /\ UNCHANGED <<llmVars, deliveryVars, auxVars>>
    \/ (\E t \in Tasks : UpdateZrem(t))
          /\ UNCHANGED <<llmVars, deliveryVars, auxVars>>
    \/ (\E t \in Tasks : TokenRead(t))
          /\ UNCHANGED <<llmVars, deliveryVars, auxVars>>
    \/ (\E t \in Tasks : TokenSet(t))
          /\ UNCHANGED <<llmVars, deliveryVars, auxVars>>
    \/ (\E t \in Tasks : Return(t))
          /\ UNCHANGED <<llmVars, deliveryVars, auxVars>>

Spec == Init /\ [][Next]_vars

\* ------------------------------------------------------------------------
\* The LLM clients (llm-service.ts, llm-service-gpt-4.ts)
\*
\* One processEmail call of each client, run against the same provider: the
\* provider's answer to the n-th request of a call is answers[n], chosen
\* when the first of the two clients issues its n-th request.  A step is
\* one fetch with the code that handles its outcome, the delay before a
\* retry included.
\* ------------------------------------------------------------------------

\* private maxRetries: number = 3
MaxRetries == 3

\* private baseDelay: number = 1000
BaseDelay == 1000

\* the retry-after header of a rate-limit answer that carries one, seconds
RetryAfterHeader == 2

\* what the provider may answer to one request:
\*   rate_limit              HTTP 429 without a retry-after header
\*   rate_limit_retry_after  HTTP 429 with retry-after: RetryAfterHeader
\*   server_error            HTTP 500
\*   malformed               HTTP 400
\*   transport               fetch rejects: no HTTP response at all
\*   success                 HTTP 200 with a text content
\*   blank                   HTTP 200 whose content is white space only
\*   empty                   HTTP 200 whose content is "" or missing
Outcomes == {"rate_limit", "rate_limit_retry_after", "server_error",
             "malformed", "transport", "success", "blank", "empty"}

\* response.status; 0 stands for no response
HttpStatus(o) ==
    CASE o \in {"rate_limit", "rate_limit_retry_after"} -> 429
      [] o = "server_error" -> 500
      [] o = "malformed" -> 400
      [] o = "transport" -> 0
      [] OTHER -> 200

\* parseInt(response.headers.get('retry-after') || '60')
RetryAfter(o) ==
    IF o = "rate_limit_retry_after" THEN RetryAfterHeader ELSE 60

\* what one execution of callGPT5 / callGPT4API does after its fetch: wait
\* and call itself with attempt + 1, throw a classified error, or return
RetryIn(delayMs) == [kind |-> "retry", delay |-> delayMs, value |-> NoCode]

Throw(code) == [kind |-> "throw", delay |-> 0, value |-> code]

ReturnContent(content) == [kind |-> "return", delay |-> 0, value |-> content]

\* AttemptsLeft that never runs out
AttemptsLeft_Always(attempt) == TRUE

\* attempt < this.maxRetries
AttemptsLeft(attempt) == attempt < MaxRetries

\* Backoff without the doubling
Backoff_Constant(attempt) == BaseDelay

\* this.baseDelay * Math.pow(2, attempt - 1)
Backoff(attempt) == BaseDelay * 2 ^ (attempt - 1)

\* the catch block of callGPT5 / callGPT4API for an error without a code
NetworkError(attempt) ==
    IF AttemptsLeft(attempt) THEN RetryIn(Backoff(attempt))
    ELSE Throw("timeout")

\* HttpErrorGPT5 that retries whatever the status is
HttpErrorGPT5_RetryAny(o, attempt) ==
    IF AttemptsLeft(attempt) THEN RetryIn(Backoff(attempt))
    ELSE Throw(IF HttpStatus(o) >= 500 THEN "api_error"
               ELSE "invalid_request")

\* the !response.ok branch of callGPT5: the error it throws has two classes
HttpErrorGPT5(o, attempt) ==
    IF HttpStatus(o) = 429 /\ AttemptsLeft(attempt)
    THEN RetryIn(RetryAfter(o) * 1000)
    ELSE IF HttpStatus(o) >= 500 /\ AttemptsLeft(attempt)
         THEN RetryIn(Backoff(attempt))
         ELSE Throw(IF HttpStatus(o) >= 500 THEN "api_error"
                    ELSE "invalid_request")

\* the !response.ok branch of callGPT4API: the error it throws has three
HttpErrorGPT4(o, attempt) ==
    IF HttpStatus(o) = 429 /\ AttemptsLeft(attempt)
    THEN RetryIn(RetryAfter(o) * 1000)
    ELSE IF HttpStatus(o) >= 500 /\ AttemptsLeft(attempt)
         THEN RetryIn(Backoff(attempt))
         ELSE Throw(IF HttpStatus(o) = 429 THEN "rate_limit"
                    ELSE IF HttpStatus(o) >= 500 THEN "api_error"
                    ELSE "invalid_request")

\* LLMService.callGPT5 for one answer.  A 200 answer goes through
\* LLMPrompts.parseModelResponse(data, 'gpt-5'), which throws an Error
\* without a code when it finds no text; that error reaches the catch block
\* like a rejected fetch.
CallGPT5(o, attempt) ==
    CASE o = "transport" -> NetworkError(attempt)
      [] HttpStatus(o) \notin {0, 200} -> HttpErrorGPT5(o, attempt)
      [] o = "empty" -> NetworkError(attempt)
      [] o = "blank" -> ReturnContent(" ")
      [] o = "success" -> ReturnContent("r")

\* LLMGPT4Service.callGPT4API for one answer.  The content of a 200 answer
\* is data.choices?.[0]?.message?.content || '', and an empty one throws
\* the classified error empty_response.
CallGPT4API(o, attempt) ==
    CASE o = "transport" -> NetworkError(attempt)
      [] HttpStatus(o) \notin {0, 200} -> HttpErrorGPT4(o, attempt)
      [] o = "empty" -> Throw("empty_response")
      [] o = "blank" -> ReturnContent(" ")
      [] o = "success" -> ReturnContent("r")

\* processEmail of either client around the call: a content that trims to
\* nothing throws empty_response, and normalizeError leaves a classified
\* error as it is
ProcessEmailResult(r) ==
    IF r.kind = "throw" THEN r.value
    ELSE IF r.value = " " THEN "empty_response" ELSE "ok"

\* the call of a client after one execution of callGPT5 / callGPT4API
AfterFetch(call, r) ==
    IF r.kind = "retry"
    THEN [call EXCEPT !.requests = @ + 1, !.attempt = @ + 1,
                      !.delays = Append(@, r.delay)]
    ELSE [call EXCEPT !.requests = @ + 1, !.result = ProcessEmailResult(r)]

\* client c issues its next request and the provider answers it
Fetch(c, o) ==
    LET n == llm[c].requests + 1 IN
    /\ llm[c].result = "running"
    /\ n <= MaxRequests
    /\ IF n <= Len(answers)
       THEN o = answers[n] /\ answers' = answers
       ELSE answers' = Append(answers, o)
    /\ llm' = [llm EXCEPT ![c] =
                 AfterFetch(llm[c],
                            IF c = "gpt5" THEN CallGPT5(o, llm[c].attempt)
                            ELSE CallGPT4API(o, llm[c].attempt))]

\* a fetch of llmService (llm-service.ts)
FetchGPT5 ==
    /\ \E o \in Outcomes : Fetch("gpt5", o)
    /\ UNCHANGED <<serverVars, deliveryVars, auxVars>>

\* a fetch of llmGPT4Service (llm-service-gpt-4.ts)
FetchGPT4 ==
    /\ \E o \in Outcomes : Fetch("gpt4", o)
    /\ UNCHANGED <<serverVars, deliveryVars, auxVars>>

NextLLM ==
    \/ FetchGPT5
    \/ FetchGPT4

SpecLLM == Init /\ [][NextLLM]_vars

\* ------------------------------------------------------------------------
\* The orchestrator with the delivery gateway (part_008, processor.ts)
\*
\* processEmail and retryEmail calls on one record, one call after the
\* other, for either EmailProcessor source.  A step is one await with the
\* code up to the next one; updateEmailStatus, which nothing interleaves
\* with here, is one step.  The LLM client is taken by its result: a
\* response or a classified error.
\* ------------------------------------------------------------------------

\* new Date().toISOString() during call number n
Timestamp(n) == ToString(n)

\* what emailService.sendResponse resolves to: success with a message id or
\* failure with an error text; it catches every error itself
SendResults == {"sent", "failed"}

\* CatchMetadata without the error message
CatchMetadata_NoError(b, message, now) ==
    [NoMetadata EXCEPT !.processedAt = now,
                       !.deliveryStatus =
                           IF b = "delivery" THEN "failed" ELSE Absent]

\* the metadata the catch block of processEmail writes: part_008 adds
\* deliveryStatus: 'failed'
CatchMetadata(b, message, now) ==
    [FailureMetadata(message) EXCEPT
        !.processedAt = now,
        !.deliveryStatus = IF b = "delivery" THEN "failed" ELSE Absent]

\* DeliveryStatus that takes a sent response for granted
DeliveryStatus_AssumeSent(send) == "sent"

\* let deliveryStatus = 'pending', then 'sent' or 'failed' after
\* sendResponse
DeliveryStatus(send) ==
    IF send = "none" THEN "pending" ELSE send

\* the metadata processEmail writes with status completed: part_008 adds the
\* delivery fields and stores the delivery error as the record's error
SuccessMetadata(b, llmResponse, send, now) ==
    IF b = "delivery"
    THEN [CompletedMetadata(llmResponse.content, llmResponse.tokenUsage)
             EXCEPT !.processedAt = now,
                    !.deliveryStatus = DeliveryStatus(send),
                    !.deliveredAt = IF send = "sent" THEN now ELSE Absent,
                    !.error = IF send = "failed" THEN "send failed"
                              ELSE Absent]
    ELSE [CompletedMetadata(llmResponse.content, llmResponse.tokenUsage)
             EXCEPT !.processedAt = now]

\* the metadata retryEmail passes: part_008 adds deliveryStatus and
\* deliveredAt, undefined like the error
RetryMetadataOf(b) ==
    IF b = "delivery"
    THEN [RetryMetadata EXCEPT !.deliveryStatus = Absent,
                               !.deliveredAt = Absent]
    ELSE RetryMetadata

\* the call starts updateEmailStatus(id, status, md) and goes on at next
RunUpdate(r, status, md, next) ==
    [r EXCEPT !.pc = "update", !.status = status, !.md = md, !.next = next]

\* the catch block of processEmail for an error of class code
RunCatch(r, code) ==
    RunUpdate([r EXCEPT !.thrown = code, !.returned = FailureStatus(code)],
              FailureStatus(code),
              CatchMetadata(build, GetErrorMessage(code), r.now),
              "done")

\* AfterSend that lets a failed delivery fail the processing
AfterSend_Demotes(r, llmResponse, send) ==
    IF send = "failed"
    THEN RunCatch([r EXCEPT !.send = send], NoCode)
    ELSE RunUpdate([r EXCEPT !.send = send, !.returned = "completed"],
                   "completed",
                   SuccessMetadata(build, llmResponse, send, r.now), "done")

\* processEmail from the delivery step to the completed write
AfterSend(r, llmResponse, send) ==
    RunUpdate([r EXCEPT !.send = send, !.returned = "completed"],
              "completed",
              SuccessMetadata(build, llmResponse, send, r.now), "done")

\* the environment of the delivery model: the source in use, whether the
\* gateway is configured, and whether the record was ingested (storeEmail
\* writes { status: 'pending' })
InitDelivery ==
    /\ InitServer
    /\ InitAux
    /\ build \in Builds
    /\ configured \in BOOLEAN
    /\ stored \in BOOLEAN
    /\ entry = IF stored THEN [EmptyEntry EXCEPT !.status = "pending"]
               ELSE EmptyEntry
    /\ run = IdleRun
    /\ trail = <<>>
    /\ calls = 0

\* emailProcessor.processEmail(id) or emailProcessor.retryEmail(id) is
\* called when the call before it has returned
RunCall(op) ==
    /\ run.pc \in {"idle", "done"}
    /\ calls < MaxCalls
    /\ calls' = calls + 1
    /\ run' = [IdleRun EXCEPT !.op = op,
                              !.pc = IF op = "retry" THEN "rt_get"
                                     ELSE "pe_get",
                              !.startStatus = entry.status,
                              !.now = Timestamp(calls + 1)]
    /\ trail' = <<>>
    /\ UNCHANGED <<build, configured, stored, entry>>

\* retryEmail: getEmail, the two throws, or updateEmailStatus(pending)
RunRetryGetEmail ==
    /\ run.pc = "rt_get"
    /\ run' = IF stored /\ entry.status \in {"failed", "manual-review"}
              THEN RunUpdate(run, "pending", RetryMetadataOf(build), "pe_get")
              ELSE [run EXCEPT !.pc = "done", !.returned = "error"]
    /\ UNCHANGED <<build, configured, stored, entry, trail, calls>>

\* processEmail: getEmail, then the throw into the catch block or
\* updateEmailStatus(processing)
RunGetEmail ==
    /\ run.pc = "pe_get"
    /\ run' = IF stored
              THEN RunUpdate(run, "processing", NoMetadata, "llm")
              ELSE RunCatch(run, NoCode)
    /\ UNCHANGED <<build, configured, stored, entry, trail, calls>>

\* await emailStore.updateEmailStatus(...)
RunUpdateStatus ==
    /\ run.pc = "update"
    /\ entry' = StatusData(entry, run.status, run.md)
    /\ trail' = Append(trail, run.status)
    /\ run' = [run EXCEPT !.pc = run.next, !.status = Absent,
                          !.md = NoMetadata, !.next = Absent]
    /\ UNCHANGED <<build, configured, stored, calls>>

\* await llmService.processEmail(email) returns a response: part_008 with a
\* configured gateway goes on to sendResponse, every other case to the
\* completed write
RunLLMSuccess ==
    /\ run.pc = "llm"
    /\ \E llmResponse \in LLMResponses(1) :
          run' = IF build = "delivery" /\ configured
                 THEN [run EXCEPT !.pc = "send", !.llmResult = "ok"]
                 ELSE AfterSend([run EXCEPT !.llmResult = "ok"],
                                llmResponse, "none")
    /\ UNCHANGED <<build, configured, stored, entry, trail, calls>>

\* await llmService.processEmail(email) throws a classified error
RunLLMFailure ==
    /\ run.pc = "llm"
    /\ \E code \in ErrorCodes :
          run' = RunCatch([run EXCEPT !.llmResult = code], code)
    /\ UNCHANGED <<build, configured, stored, entry, trail, calls>>

\* await emailService.sendResponse(email, llmResponse.content)
RunSend ==
    /\ run.pc = "send"
    /\ \E send \in SendResults, llmResponse \in LLMResponses(1) :
          run' = AfterSend(run, llmResponse, send)
    /\ UNCHANGED <<build, configured, stored, entry, trail, calls>>

NextDelivery ==
    \/ (\E op \in {"process", "retry"} : RunCall(op))
          /\ UNCHANGED <<serverVars, llmVars, auxVars>>
    \/ RunRetryGetEmail /\ UNCHANGED <<serverVars, llmVars, auxVars>>
    \/ RunGetEmail /\ UNCHANGED <<serverVars, llmVars, auxVars>>
    \/ RunUpdateStatus /\ UNCHANGED <<serverVars, llmVars, auxVars>>
    \/ RunLLMSuccess /\ UNCHANGED <<serverVars, llmVars, auxVars>>
    \/ RunLLMFailure /\ UNCHANGED <<serverVars, llmVars, auxVars>>
    \/ RunSend /\ UNCHANGED <<serverVars, llmVars, auxVars>>

SpecDelivery == InitDelivery /\ [][NextDelivery]_vars

\* ------------------------------------------------------------------------
\* The delivery gateway (email-service.ts)
\*
\* One sendResponse call for one recipient address, under every
\* configuration the constructor can leave behind.  Addresses and list
\* entries are sequences of characters.
\* ------------------------------------------------------------------------

\* the characters of addresses and list entries: a lower-case letter, its
\* upper-case form, and the at sign
Chars == {"a", "A", "@"}

\* the strings of at most n characters
Strings(n) == UNION {[1..k -> Chars] : k \in 0..n}

\* String.prototype.toLowerCase
ToLowerCase(str) ==
    [i \in 1..Len(str) |-> IF str[i] = "A" THEN "a" ELSE str[i]]

\* String.prototype.includes
Includes(str, part) ==
    \E i \in 0..(Len(str) - Len(part)) :
        SubSeq(str, i + 1, i + Len(part)) = part

\* email.split('@')[1]: what stands between the first at sign and the next
\* one or the end; <<>> also stands for undefined (no at sign), which the
\* caller treats like the empty string
SplitDomain(email) ==
    LET ats == {i \in 1..Len(email) : email[i] = "@"} IN
    IF ats = {} THEN <<>>
    ELSE LET first == CHOOSE i \in ats : \A j \in ats : i <= j
             later == {j \in ats : j > first}
             stop == IF later = {} THEN Len(email) + 1
                     ELSE CHOOSE i \in later : \A j \in later : i <= j
         IN  SubSeq(email, first + 1, stop - 1)

\* EmailService.shouldSendToEmail
ShouldSendToEmail(svc, email) ==
    LET domain == ToLowerCase(SplitDomain(email)) IN
    IF domain = <<>>
    THEN [allowed |-> FALSE, reason |-> "Invalid email address"]
    ELSE IF \E blocked \in svc.blockedDomains :
                Includes(ToLowerCase(email), blocked)
    THEN [allowed |-> FALSE, reason |-> "Blocked pattern"]
    ELSE IF /\ svc.allowedDomains # {}
            /\ ~\E allowed \in svc.allowedDomains :
                   \/ domain = allowed
                   \/ Includes(ToLowerCase(email), allowed)
    THEN [allowed |-> FALSE, reason |-> "Domain not in allowed list"]
    ELSE [allowed |-> TRUE, reason |-> Absent]

\* NotReady that looks at the client only
NotReady_ClientOnly(svc) ==
    IF ~svc.resend THEN "Resend client not initialized" ELSE Absent

\* the first two returns of sendResponse: the error it returns when sending
\* is disabled or there is no client, Absent when it goes on
NotReady(svc) ==
    IF ~svc.enabled THEN "Email sending is disabled"
    ELSE IF ~svc.resend THEN "Resend client not initialized"
    ELSE Absent

\* the values a blockedDomains or allowedDomains list is tried with: empty
\* or one entry
DomainLists == {{}} \cup {{d} : d \in Strings(MaxPatternLen)}

\* the constructor: enabled is the feature flag, the client exists only
\* with an API key and the flag set; any recipient
InitGateway ==
    /\ InitServer
    /\ RestDelivery
    /\ RestRenderer
    /\ RestIngest
    /\ emailService \in
          {svc \in [enabled : BOOLEAN, resend : BOOLEAN, testMode : BOOLEAN,
                    blockedDomains : DomainLists,
                    allowedDomains : DomainLists] :
              svc.resend => svc.enabled}
    /\ toEmail \in Strings(MaxAddressLen)
    /\ sendCall = IdleSend

\* sendResponse returns { success, error }
SendReturns(success, error) ==
    [sendCall EXCEPT !.pc = "done", !.success = success, !.error = error]

\* sendResponse from its call to its first await: the flag and client
\* returns, the domain policy, test mode, then resend.emails.send
SendResponse ==
    /\ sendCall.pc = "idle"
    /\ sendCall' =
          IF NotReady(emailService) # Absent
          THEN SendReturns(FALSE, NotReady(emailService))
          ELSE IF ~ShouldSendToEmail(emailService, toEmail).allowed
          THEN SendReturns(FALSE, "Email blocked")
          ELSE IF emailService.testMode
          THEN SendReturns(TRUE, Absent)
          ELSE [sendCall EXCEPT !.pc = "sending", !.transmitted = TRUE]
    /\ UNCHANGED <<emailService, toEmail>>

\* await this.resend.emails.send(...) resolves with data, resolves with an
\* error, or rejects; the catch block turns a rejection into a failure
ResendAnswers ==
    /\ sendCall.pc = "sending"
    /\ \E answer \in {"data", "error", "rejected"} :
          sendCall' = IF answer = "data" THEN SendReturns(TRUE, Absent)
                      ELSE SendReturns(FALSE, answer)
    /\ UNCHANGED <<emailService, toEmail>>

NextGateway ==
    \/ /\ SendResponse
       /\ UNCHANGED <<serverVars, llmVars, deliveryVars, rendererVars,
                    ingestVars>>
    \/ /\ ResendAnswers
       /\ UNCHANGED <<serverVars, llmVars, deliveryVars, rendererVars,
                    ingestVars>>

SpecGateway == InitGateway /\ [][NextGateway]_vars

\* ------------------------------------------------------------------------
\* The markdown renderer (rich_email_renderer.ts)
\*
\* renderToEmailHtml as a function of the markdown text, a sequence of
\* characters.  The inline pass (escaping, bold, italics) and the styling
\* of the fragments are left out: a fragment carries the text the inline
\* pass is given.
\* ------------------------------------------------------------------------

\* the characters of a markdown text: the line feed, the pipe, the dash,
\* the blank, a letter, the hash, a digit and the full stop (no carriage
\* return, so the replace of line 30 leaves the text as it is)
MdChars == {"\n", "|", "-", " ", "x", "#", "1", "."}

\* the character classes of the regular expressions: \s, [-*], \d, [-:\s|]
Space == {" ", "\n"}
Bullet == {"-", "*"}
Digit == {"1"}
SeparatorChars == {"-", ":", "|"} \cup Space

\* how many characters of str, from position i on, lie in class
Run(str, i, class) ==
    CHOOSE n \in 0..(Len(str) + 1 - i) :
        /\ \A j \in i..(i + n - 1) : str[j] \in class
        /\ i + n <= Len(str) => str[i + n] \notin class

\* String.prototype.trim
Trim(str) ==
    LET lead == Run(str, 1, Space)
        last == {j \in 1..Len(str) : str[j] \notin Space}
    IN  IF last = {} THEN <<>>
        ELSE SubSeq(str, lead + 1, CHOOSE j \in last : \A k \in last : k <= j)

\* String.prototype.split with a one-character separator
RECURSIVE Split(_, _)
Split(str, sep) ==
    LET at == {i \in 1..Len(str) : str[i] = sep} IN
    IF at = {} THEN <<str>>
    ELSE LET first == CHOOSE i \in at : \A j \in at : i <= j
         IN  <<SubSeq(str, 1, first - 1)>>
                 \o Split(SubSeq(str, first + 1, Len(str)), sep)

\* str starts with lead, as in /^##/
StartsWith(str, lead) ==
    Len(str) >= Len(lead) /\ SubSeq(str, 1, Len(lead)) = lead

\* /^\s*$/
IsBlank(line) == Run(line, 1, Space) = Len(line)

\* the length of the match of /^##\s+/ (hashes = <<"#", "#">>) or of
\* /^###\s+/, 0 when the line does not match
HeadingPrefix(line, hashes) ==
    LET blanks == Run(line, Len(hashes) + 1, Space) IN
    IF StartsWith(line, hashes) /\ blanks > 0
    THEN Len(hashes) + blanks ELSE 0

\* the length of the match of /^\s*[-*]\s+/ (unordered) or of
\* /^\s*\d+\.\s+/ (ordered), 0 when the line does not match
ListPrefix(line, ordered) ==
    LET lead == Run(line, 1, Space)
        digits == Run(line, lead + 1, Digit)
        mark == IF ordered THEN lead + digits + 1 ELSE lead + 1
        blanks == Run(line, mark + 1, Space)
    IN  IF /\ mark <= Len(line)
           /\ IF ordered THEN digits > 0 /\ line[mark] = "."
                         ELSE line[mark] \in Bullet
           /\ blanks > 0
        THEN mark + blanks ELSE 0

\* /^\s*\|/
IsTableLine(line) ==
    LET lead == Run(line, 1, Space) IN
    lead < Len(line) /\ line[lead + 1] = "|"

\* /^\s*---\s*$/
IsRule(line) == Trim(line) = <<"-", "-", "-">>

\* /^\s*\|?[-:\s|]+\|?\s*$/: the pipes and blanks around the middle part
\* are themselves in the class of the middle part, so the expression
\* matches the non-empty lines made of that class
IsSeparator(line) ==
    line # <<>> /\ \A j \in 1..Len(line) : line[j] \in SeparatorChars

\* line.trim().replace(/^\|/, '').replace(/\|$/, '').split('|').map(trim)
Cells(line) ==
    LET trimmed == Trim(line)
        open == IF StartsWith(trimmed, <<"|">>) THEN Tail(trimmed)
                ELSE trimmed
        inner == IF open # <<>> /\ open[Len(open)] = "|"
                 THEN SubSeq(open, 1, Len(open) - 1) ELSE open
        parts == Split(inner, "|")
    IN  [k \in 1..Len(parts) |-> Trim(parts[k])]

\* a block of tokenizeBlocks; the fields a block type does not have are
\* empty
Block(type, text, items, headers, rows) ==
    [type |-> type, text |-> text, items |-> items, headers |-> headers,
     rows |-> rows]

\* ParagraphBlock that drops the text
ParagraphBlock_Empty(text) == Block("p", <<>>, <<>>, <<>>, <<>>)

\* blocks.push({ type: 'p', text })
ParagraphBlock(text) == Block("p", text, <<>>, <<>>, <<>>)

\* collectList from line i: the block and the line the loop goes on with
CollectList(lines, i, ordered) ==
    LET n == CHOOSE k \in 0..(Len(lines) + 1 - i) :
                 /\ \A j \in i..(i + k - 1) :
                        ListPrefix(lines[j], ordered) > 0
                 /\ i + k <= Len(lines)
                        => ListPrefix(lines[i + k], ordered) = 0
        items == [k \in 1..n |->
                    SubSeq(lines[i + k - 1],
                           ListPrefix(lines[i + k - 1], ordered) + 1,
                           Len(lines[i + k - 1]))]
    IN  [block |-> Block(IF ordered THEN "ol" ELSE "ul", <<>>, items,
                         <<>>, <<>>),
         next |-> i + n]

\* collectTable from line i: the block and the line the loop goes on with
CollectTable(lines, i) ==
    LET headerLine == lines[i]
        sepLine == IF i + 1 <= Len(lines) THEN lines[i + 1] ELSE <<>>
        n == CHOOSE k \in 0..(Len(lines) - i - 1) :
                 /\ \A j \in (i + 2)..(i + 1 + k) : IsTableLine(lines[j])
                 /\ i + 2 + k <= Len(lines)
                        => ~IsTableLine(lines[i + 2 + k])
    IN  IF ~IsSeparator(sepLine)
        THEN [block |-> ParagraphBlock(headerLine), next |-> i + 1]
        ELSE [block |-> Block("table", <<>>, <<>>, Cells(headerLine),
                              [k \in 1..n |-> Cells(lines[i + 1 + k])]),
              next |-> i + 2 + n]

\* the while loop of tokenizeBlocks from line i on
RECURSIVE TokenizeFrom(_, _)
TokenizeFrom(lines, i) ==
    IF i > Len(lines) THEN <<>>
    ELSE LET line == lines[i]
             h2 == HeadingPrefix(line, <<"#", "#">>)
             h3 == HeadingPrefix(line, <<"#", "#", "#">>)
             heading(type, n) ==
                 Block(type, SubSeq(line, n + 1, Len(line)), <<>>, <<>>,
                       <<>>)
             collected ==
                 IF ListPrefix(line, FALSE) > 0
                 THEN CollectList(lines, i, FALSE)
                 ELSE IF ListPrefix(line, TRUE) > 0
                 THEN CollectList(lines, i, TRUE)
                 ELSE CollectTable(lines, i)
         IN  IF IsBlank(line)
             THEN <<ParagraphBlock(<<>>)>> \o TokenizeFrom(lines, i + 1)
             ELSE IF h2 > 0
             THEN <<heading("h2", h2)>> \o TokenizeFrom(lines, i + 1)
             ELSE IF h3 > 0
             THEN <<heading("h3", h3)>> \o TokenizeFrom(lines, i + 1)
             ELSE IF \/ ListPrefix(line, FALSE) > 0
                     \/ ListPrefix(line, TRUE) > 0
                     \/ IsTableLine(line)
             THEN <<collected.block>> \o TokenizeFrom(lines, collected.next)
             ELSE IF IsRule(line)
             THEN <<Block("hr", <<>>, <<>>, <<>>, <<>>)>>
                      \o TokenizeFrom(lines, i + 1)
             ELSE <<ParagraphBlock(line)>> \o TokenizeFrom(lines, i + 1)

\* tokenizeBlocks
TokenizeBlocks(src) == TokenizeFrom(Split(src, "\n"), 1)

\* the fragment a block is rendered into: the block with the texts handed
\* to the inline pass; paragraph() puts a non-breaking space in place of a
\* text that trims to nothing
Fragment(block) ==
    IF block.type = "p" /\ Trim(block.text) = <<>>
    THEN [block EXCEPT !.text = <<"&nbsp;">>]
    ELSE block

\* renderToEmailHtml: one fragment for each block; parts.join('') is the
\* empty string exactly when there is no fragment
RenderToEmailHtml ==
    /\ ~rendering.done
    /\ LET blocks == TokenizeBlocks(rendering.markdown) IN
       rendering' = [rendering EXCEPT
                        !.done = TRUE,
                        !.blocks = blocks,
                        !.html = [k \in 1..Len(blocks) |->
                                     Fragment(blocks[k])]]

\* any markdown text of at most MaxMarkdownLen characters
InitRenderer ==
    /\ InitServer
    /\ RestDelivery
    /\ RestGateway
    /\ RestIngest
    /\ \E markdown \in UNION {[1..k -> MdChars] : k \in 0..MaxMarkdownLen} :
          rendering = [markdown |-> markdown, done |-> FALSE,
                       blocks |-> <<>>, html |-> <<>>]

NextRenderer ==
    /\ RenderToEmailHtml
    /\ UNCHANGED <<serverVars, llmVars, deliveryVars, gatewayVars,
                   ingestVars>>

SpecRenderer == InitRenderer /\ [][NextRenderer]_vars

\* ------------------------------------------------------------------------
\* Ingestion (poll/route.ts, emails/route.ts, kv-client.ts)
\*
\* The routes that bring records into the tracking set, run one after the
\* other against the store, with records arriving under gmail:email:<id>
\* from outside and the orchestrator writing status entries in between.
\* ------------------------------------------------------------------------

\* the largest historyId among the records ids, 0 for none
MaxHistoryOf(ids) ==
    IF ids = {} THEN 0
    ELSE LET top == CHOOSE i \in ids :
                        \A j \in ids : historyId[j] <= historyId[i]
         IN  historyId[top]

\* an operation of this section: its bound and its entry in the log
Logged(name) ==
    /\ ingestLog.ops < MaxIngestOps
    /\ ingestLog' = [ops |-> ingestLog.ops + 1, last |-> name]
    /\ UNCHANGED <<responseKey, processingQueue, tokenUsageKey, isProcessing,
                   currentlyProcessing, task, opsStarted>>

\* emailStore.storeEmail for each record of ids: the status entry becomes
\* { status: 'pending' } and the id joins the tracking set
StoreEmails(ids) ==
    /\ statusKey' = [i \in EmailIds |->
                        IF i \in ids
                        THEN [EmptyEntry EXCEPT !.status = "pending"]
                        ELSE statusKey[i]]
    /\ allEmails' = allEmails \cup ids

\* the outside writer (the Gmail side) puts a new record under
\* gmail:email:<id>
Arrive(id, h) ==
    /\ Logged("arrive")
    /\ id \notin emailKey
    /\ emailKey' = emailKey \cup {id}
    /\ historyId' = [historyId EXCEPT ![id] = h]
    /\ UNCHANGED <<allEmails, statusKey, lastHistoryId, byHistory>>

\* the orchestrator writes the status of a tracked record
StatusWritten(id, status) ==
    /\ Logged("orchestrator")
    /\ id \in emailKey \cap allEmails
    /\ statusKey' = [statusKey EXCEPT ![id].status = status]
    /\ UNCHANGED <<emailKey, allEmails, historyId, lastHistoryId, byHistory>>

\* GET /api/emails/poll: fetchNewEmailsFromUpstash (untracked records
\* above the watermark, then the members of the sorted set above it),
\* storeEmail for each, and the watermark raised to their largest
\* historyId
Poll ==
    LET fromKeys == {i \in emailKey \ allEmails :
                        historyId[i] > lastHistoryId}
        hasRange == \E i \in EmailIds : byHistory[i] > 0
        fromRange == IF hasRange
                     THEN {i \in emailKey : byHistory[i] >= lastHistoryId + 1}
                     ELSE {}
        newEmails == fromKeys \cup fromRange
        maxHistoryId == MaxHistoryOf(newEmails)
    IN  /\ Logged("poll")
        /\ StoreEmails(newEmails)
        /\ lastHistoryId' = IF maxHistoryId > lastHistoryId
                            THEN maxHistoryId ELSE lastHistoryId
        /\ UNCHANGED <<emailKey, historyId, byHistory>>

\* POST /api/emails/poll: the manual add of one record
ManualAdd(id, h) ==
    /\ Logged("manualAdd")
    /\ emailKey' = emailKey \cup {id}
    /\ historyId' = [historyId EXCEPT ![id] = h]
    /\ StoreEmails({id})
    /\ lastHistoryId' = IF h > lastHistoryId THEN h ELSE lastHistoryId
    /\ byHistory' = [byHistory EXCEPT ![id] = h]

\* PUT /api/emails/poll: importExistingEmails (an untracked record joins
\* the tracking set and gets a pending status entry if it has none), then
\* the watermark set to the largest historyId of all records
ForceRefresh ==
    LET imported == emailKey \ allEmails
        maxHistoryId == MaxHistoryOf(emailKey)
    IN  /\ Logged("forceRefresh")
        /\ allEmails' = allEmails \cup imported
        /\ statusKey' = [i \in EmailIds |->
                            IF i \in imported /\ statusKey[i].status = Absent
                            THEN [EmptyEntry EXCEPT !.status = "pending"]
                            ELSE statusKey[i]]
        /\ lastHistoryId' = IF maxHistoryId > 0
                            THEN maxHistoryId ELSE lastHistoryId
        /\ UNCHANGED <<emailKey, historyId, byHistory>>

\* POST /api/emails/sync: storeEmail for every untracked record, and the
\* watermark set to the largest historyId among them
Sync ==
    LET imported == emailKey \ allEmails
        maxHistoryId == MaxHistoryOf(imported)
    IN  /\ Logged("sync")
        /\ StoreEmails(imported)
        /\ byHistory' = [i \in EmailIds |->
                            IF i \in imported THEN historyId[i]
                            ELSE byHistory[i]]
        /\ lastHistoryId' = IF maxHistoryId > 0
                            THEN maxHistoryId ELSE lastHistoryId
        /\ UNCHANGED <<emailKey, historyId>>

NextIngest ==
    \/ /\ \E id \in EmailIds, h \in 1..MaxHistoryId : Arrive(id, h)
       /\ UNCHANGED <<answers, llm, deliveryVars, gatewayVars, rendererVars>>
    \/ /\ \E id \in EmailIds,
             status \in {"pending", "processing", "completed", "failed",
                         "manual-review"} : StatusWritten(id, status)
       /\ UNCHANGED <<answers, llm, deliveryVars, gatewayVars, rendererVars>>
    \/ /\ Poll
       /\ UNCHANGED <<answers, llm, deliveryVars, gatewayVars, rendererVars>>
    \/ /\ \E id \in EmailIds, h \in 1..MaxHistoryId : ManualAdd(id, h)
       /\ UNCHANGED <<answers, llm, deliveryVars, gatewayVars, rendererVars>>
    \/ /\ ForceRefresh
       /\ UNCHANGED <<answers, llm, deliveryVars, gatewayVars, rendererVars>>
    \/ /\ Sync
       /\ UNCHANGED <<answers, llm, deliveryVars, gatewayVars, rendererVars>>

SpecIngest == Init /\ [][NextIngest]_vars

\* ------------------------------------------------------------------------
\* Sweeps against a store that can fail
\*
\* The processQueue side of the server as above, and in addition a store
\* command awaited by a sweep may reject.
\* ------------------------------------------------------------------------

\* the request is inside updateEmailStatus
InUpdate(t) ==
    task[t].pc \in {"ues_read", "ues_set", "ues_resp", "ues_zadd", "ues_zrem",
                    "tok_read", "tok_set"}

\* WorkingAfter that leaves the id in the working set
WorkingAfter_Kept(working, id) == working

\* finally { this.currentlyProcessing.delete(emailId) }
WorkingAfter(working, id) == working \ {id}

\* processQueue rejects: the finally has cleared the sweep flag and the
\* route answers with status 500
SweepThrows(t, working) ==
    /\ task' = [task EXCEPT ![t] =
                  [task[t] EXCEPT !.pc = "done", !.pendingIds = <<>>,
                                  !.status = Absent, !.md = NoMetadata,
                                  !.cur = EmptyEntry, !.stats = ZeroStats,
                                  !.ret = Absent, !.outcome = "error"]]
    /\ currentlyProcessing' = working
    /\ isProcessing' = FALSE

\* the store command a sweep is waiting for rejects.  In getPendingEmails
\* the rejection leaves processQueue through its finally; inside the try of
\* processEmail it enters the catch block, as an error without a code; in
\* the updateEmailStatus of the catch block it leaves processEmail, the
\* loop's finally and processQueue's finally
StoreThrows(t) ==
    /\ task[t].kind = "sweep"
    /\ \/ /\ task[t].pc = "sw_pending"
          /\ SweepThrows(t, currentlyProcessing)
       \/ /\ \/ task[t].pc = "pe_get"
             \/ InUpdate(t) /\ task[t].status \in {"processing", "completed"}
          /\ task' = [task EXCEPT ![t] = Catch(task[t], NoCode)]
          /\ UNCHANGED <<isProcessing, currentlyProcessing>>
       \/ /\ InUpdate(t)
          /\ task[t].status \in {"failed", "manual-review"}
          /\ SweepThrows(t, WorkingAfter(currentlyProcessing, task[t].id))
    /\ UNCHANGED <<storeVars, opsStarted>>

\* records are stored and processQueue is called, by up to two callers at a
\* time; every request in flight is a sweep
NextFaulty ==
    \/ (\E id \in EmailIds : StoreEmail(id))
          /\ UNCHANGED <<llmVars, deliveryVars, auxVars>>
    \/ (\E t \in Tasks : ProcessQueueCall(t))
          /\ UNCHANGED <<llmVars, deliveryVars, auxVars>>
    \/ (\E t \in Tasks : SweepGetPending(t))
          /\ UNCHANGED <<llmVars, deliveryVars, auxVars>>
    \/ (\E t \in Tasks : SweepDelayOver(t))
          /\ UNCHANGED <<llmVars, deliveryVars, auxVars>>
    \/ (\E t \in Tasks : ProcessGetEmail(t))
          /\ UNCHANGED <<llmVars, deliveryVars, auxVars>>
    \/ (\E t \in Tasks : LLMSuccess(t))
          /\ UNCHANGED <<llmVars, deliveryVars, auxVars>>
    \/ (\E t \in Tasks : LLMFailure(t))
          /\ UNCHANGED <<llmVars, deliveryVars, auxVars>>
    \/ (\E t \in Tasks : UpdateRead(t))
          /\ UNCHANGED <<llmVars, deliveryVars, auxVars>>
    \/ (\E t \in Tasks : UpdateSet(t))
          /\ UNCHANGED <<llmVars, deliveryVars, auxVars>>
    \/ (\E t \in Tasks : UpdateResponse(t))
          /\ UNCHANGED <<llmVars, deliveryVars, auxVars>>
    \/ (\E t \in Tasks : UpdateZadd(t))
          /\ UNCHANGED <<llmVars, deliveryVars, auxVars>>
    \/ (\E t \in Tasks : UpdateZrem(t))
          /\ UNCHANGED <<llmVars, deliveryVars, auxVars>>
    \/ (\E t \in Tasks : TokenRead(t))
          /\ UNCHANGED <<llmVars, deliveryVars, auxVars>>
    \/ (\E t \in Tasks : TokenSet(t))
          /\ UNCHANGED <<llmVars, deliveryVars, auxVars>>
    \/ (\E t \in Tasks : Return(t))
          /\ UNCHANGED <<llmVars, deliveryVars, auxVars>>
    \/ (\E t \in Tasks : StoreThrows(t))
          /\ UNCHANGED <<llmVars, deliveryVars, auxVars>>

SpecFaulty == Init /\ [][NextFaulty]_vars

\* ------------------------------------------------------------------------
\* Properties
\* ------------------------------------------------------------------------

\* the request is inside a processEmail execution
InProcessEmail(t) ==
    \/ task[t].pc \in {"pe_get", "llm"}
    \/ InUpdate(t) /\ task[t].ret \in {"pe_llm", "pe_return"}

\* the processEmail execution of the request has found its record, set it
\* to processing and called the LLM, and has not returned yet
InPipeline(t) == InProcessEmail(t) /\ task[t].llmCalled

\* no request other than t is in flight
Alone(t) == \A u \in Tasks \ {t} : task[u].pc = "idle"

\* C1: in every step of a processEmail, processQueue, retryEmail or reset
\* call, the stored status of a record changes to processing only from
\* pending, and changes away from processing only to completed, failed or
\* manual-review.
C1_TransitionsMonotonic ==
    [][task' # task =>
         \A id \in EmailIds :
            /\ (GetEmailStatus(id) # "processing"
                /\ statusKey'[id].status = "processing")
                  => GetEmailStatus(id) = "pending"
            /\ (statusKey[id].status = "processing"
                /\ statusKey'[id].status # "processing")
                  => statusKey'[id].status \in {"completed", "failed",
                                                "manual-review"}]_vars

\* C2: a record whose stored status is completed exists and has a non-empty
\* response readable through getEmail.
C2_CompletedHasResponse ==
    \A id \in EmailIds :
        statusKey[id].status = "completed"
            => /\ id \in emailKey
               /\ GetEmailResponse(id) # Absent
               /\ GetEmailResponse(id) # ""

C2_Witness ==
    \E id \in EmailIds :
        /\ statusKey[id].status = "completed"
        /\ \E t \in Tasks : task[t].pc = "ues_resp" /\ task[t].id = id

\* C3: when the reset route has returned for a record it found completed,
\* with no other request in flight, the record is pending and has no
\* response, error, token usage or delivery field, in the status entry and
\* in the response key.
C3_ResetClears ==
    [][\A t \in Tasks :
         (/\ task[t].kind = "reset"
          /\ task[t].previousStatus = "completed"
          /\ task[t].pc # "done"
          /\ task'[t].pc = "done"
          /\ task'[t].outcome = "reset"
          /\ Alone(t))
            => /\ statusKey'[task[t].id].status = "pending"
               /\ statusKey'[task[t].id].response = Absent
               /\ statusKey'[task[t].id].error = Absent
               /\ statusKey'[task[t].id].tokenUsage = NoUsage
               /\ statusKey'[task[t].id].deliveryStatus = Absent
               /\ statusKey'[task[t].id].deliveredAt = Absent
               /\ responseKey'[task[t].id] = Absent]_vars

\* C4: during a rerun (reset, then processEmail) of a record that was
\* completed, with no other request in flight, the record is never
\* processing with a response, and the run ends completed with a response or
\* failed / manual-review with none.
C4_RerunNoStaleResponse ==
    \A t \in Tasks :
        (/\ task[t].kind = "reset"
         /\ task[t].rerun
         /\ task[t].previousStatus = "completed"
         /\ Alone(t))
           => /\ (InProcessEmail(t)
                  /\ statusKey[task[t].id].status = "processing")
                    => GetEmailResponse(task[t].id) = Absent
              /\ (task[t].pc = "done" /\ task[t].outcome = "completed")
                    => GetEmailResponse(task[t].id) = "r"
              /\ (task[t].pc = "done"
                  /\ task[t].outcome \in {"failed", "manual-review"})
                    => GetEmailResponse(task[t].id) = Absent

\* C5: when retryEmail reads a record whose status is pending, processing or
\* completed, it signals an error, no store key changes, and no LLM call is
\* made.
C5_RetryRejected ==
    [][\A t \in Tasks :
         (/\ task[t].pc = "rt_get"
          /\ task[t].id \in emailKey
          /\ GetEmailStatus(task[t].id) \in {"pending", "processing",
                                             "completed"}
          /\ task'[t] # task[t])
            => /\ task'[t].pc = "done"
               /\ task'[t].outcome = "error"
               /\ ~task'[t].llmCalled
               /\ UNCHANGED storeVars]_vars

C5_Witness ==
    \E t \in Tasks :
        /\ task[t].kind = "retry"
        /\ task[t].pc = "done"
        /\ task[t].outcome = "error"
        /\ task[t].id \in emailKey
        /\ statusKey[task[t].id].status = "completed"

\* C6: once retryEmail has set a failed or manual-review record back to
\* pending, with no other request in flight, the record has no error while
\* it is pending or processing, and none after the attempt ends completed.
C6_RetryClearsError ==
    \A t \in Tasks :
        (/\ task[t].kind = "retry"
         /\ \/ InProcessEmail(t)
            \/ task[t].pc = "done" /\ task[t].outcome # "error"
         /\ Alone(t)
         /\ statusKey[task[t].id].status \in {"pending", "processing",
                                              "completed"})
           => statusKey[task[t].id].error = Absent

\* a processQueue call has passed the guard and has not returned
SweepActive(t) ==
    task[t].kind = "sweep" /\ task[t].pc # "done"

\* C7: a processQueue call made while a sweep is active returns an empty
\* result list without reading the pending list or starting a processEmail,
\* and at most one sweep is active at any time.
C7_SweepExclusion ==
    /\ [](Cardinality({t \in Tasks : SweepActive(t)}) <= 1)
    /\ [][\A t \in Tasks :
            (/\ task[t].pc = "idle"
             /\ task'[t].kind = "sweep"
             /\ \E u \in Tasks : SweepActive(u))
               => /\ task'[t].pc = "done"
                  /\ task'[t].results = <<>>
                  /\ ~task'[t].readPending
                  /\ UNCHANGED <<storeVars, isProcessing,
                                 currentlyProcessing>>]_vars

C7_Witness ==
    \E t, u \in Tasks :
        /\ SweepActive(t) /\ InProcessEmail(t)
        /\ task[u].kind = "sweep" /\ task[u].pc = "done"
        /\ ~task[u].readPending /\ task[u].results = <<>>

C9_OnePerRecord ==
    \A t, u \in Tasks :
        (t # u /\ InPipeline(t) /\ InPipeline(u))
            => task[t].id # task[u].id

\* C10: no field of the global token-usage aggregate ever decreases.
C10_AggregateMonotonic ==
    [][/\ tokenUsageKey'.totalPrompt >= tokenUsageKey.totalPrompt
       /\ tokenUsageKey'.totalCompletion >= tokenUsageKey.totalCompletion
       /\ tokenUsageKey'.totalTokens >= tokenUsageKey.totalTokens
       /\ tokenUsageKey'.emailsProcessed >= tokenUsageKey.emailsProcessed]_vars

\* ------------------------------------------------------------------------
\* Properties of the LLM clients
\* ------------------------------------------------------------------------

\* the answers client c has received so far
Received(c) == SubSeq(answers, 1, llm[c].requests)

\* the processEmail call of client c is over
Finished(c) == llm[c].result # "running"

\* the answer to the request client c issues in this step
Answered(c) == answers'[llm[c].requests + 1]

RateLimits == {"rate_limit", "rate_limit_retry_after"}

\* C12: a call whose every request was answered with a rate-limit response
\* ends after 3 requests with the error class rate_limit, for which the
\* orchestrator writes status failed.
C12_RateLimitSurfaces ==
    \A c \in Clients :
        (/\ Finished(c)
         /\ \A n \in 1..llm[c].requests : answers[n] \in RateLimits)
           => /\ llm[c].requests = 3
              /\ llm[c].result = "rate_limit"
              /\ FailureStatus(llm[c].result) = "failed"

\* C13: a 200 answer whose content is empty, blank or missing ends the call
\* with that request, and the class is empty_response.
C13_EmptyNotRetried ==
    \A c \in Clients :
        \A n \in 1..llm[c].requests :
            answers[n] \in {"empty", "blank"}
                => /\ llm[c].requests = n
                   /\ llm[c].result = "empty_response"

\* C14: whatever the provider answers, a call issues at most 3 requests, its
\* attempt counter counts the requests of every failure kind, and after the
\* third request at the latest it is over with a response or a classified
\* error.
C14_AtMostThreeRequests ==
    \A c \in Clients :
        /\ llm[c].requests <= 3
        /\ ~Finished(c) => llm[c].attempt = llm[c].requests + 1
        /\ llm[c].requests = 3 => Finished(c)
        /\ Finished(c) => llm[c].result \in {"ok"} \cup ErrorCodes

C14_Witness ==
    \E c \in Clients :
        /\ llm[c].requests = 3
        /\ Received(c) = <<"rate_limit", "server_error", "transport">>
        /\ llm[c].result = "timeout"

\* C15: a malformed-request answer ends the call with invalid_request on the
\* request it answers, the first or a later one.
C15_MalformedNotRetried ==
    \A c \in Clients :
        \A n \in 1..llm[c].requests :
            answers[n] = "malformed"
                => /\ llm[c].requests = n
                   /\ llm[c].result = "invalid_request"

C15_Witness ==
    /\ \A c \in Clients : llm[c].requests = 2 /\ Finished(c)
    /\ answers = <<"server_error", "malformed">>

\* C16: a transport failure at attempt 1 is followed by a wait of 1000 ms
\* and one at attempt 2 by a wait of 2000 ms, each then by another request;
\* a call whose 3 requests all failed at transport level ends with timeout.
C16_TransportBackoff ==
    /\ [](\A c \in Clients :
            (llm[c].requests = 3
             /\ \A n \in 1..3 : answers[n] = "transport")
               => llm[c].result = "timeout")
    /\ [][\A c \in Clients :
            (/\ llm'[c] # llm[c]
             /\ Answered(c) = "transport"
             /\ llm[c].attempt < 3)
               => /\ llm'[c].delays =
                       Append(llm[c].delays,
                              IF llm[c].attempt = 1 THEN 1000 ELSE 2000)
                  /\ llm'[c].attempt = llm[c].attempt + 1
                  /\ ~Finished(c)']_vars

C16_Witness ==
    \E c \in Clients :
        /\ Received(c) = <<"transport", "transport", "transport">>
        /\ llm[c].delays = <<1000, 2000>>
        /\ llm[c].result = "timeout"

\* C17: on the same provider answers the two clients issue the same number
\* of requests and end with the same result.
C17_ClientsAgree ==
    (\A c \in Clients : Finished(c))
        => /\ llm["gpt5"].requests = llm["gpt4"].requests
           /\ llm["gpt5"].result = llm["gpt4"].result

\* ------------------------------------------------------------------------
\* Properties of the orchestrator with the delivery gateway
\* ------------------------------------------------------------------------

\* the call in progress has returned
RunOver == run.pc = "done"

\* C11: a processEmail call that ended in its catch block leaves the record
\* in manual-review exactly when the error class is invalid_request, and in
\* failed for every other class and for an error without a class.
C11_FailureClassToStatus ==
    (RunOver /\ run.thrown # Absent)
        => /\ run.returned = entry.status
           /\ entry.status = "manual-review" <=> run.thrown = "invalid_request"
           /\ entry.status = "failed" <=> run.thrown # "invalid_request"

C11_Witness ==
    /\ RunOver
    /\ run.llmResult = "invalid_request"
    /\ entry.status = "manual-review"

\* C18: when the LLM call has succeeded and the delivery gateway has
\* reported a failure, the record is never failed or manual-review, and the
\* call ends with the record completed, the generated response stored and
\* deliveryStatus failed.
C18_DeliveryFailureIsSoft ==
    (run.llmResult = "ok" /\ run.send = "failed")
        => /\ entry.status \notin {"failed", "manual-review"}
           /\ RunOver => /\ run.returned = "completed"
                          /\ entry.status = "completed"
                          /\ entry.response = "r"
                          /\ entry.deliveryStatus = "failed"

C18_Witness ==
    /\ RunOver
    /\ run.llmResult = "ok"
    /\ run.send = "failed"
    /\ entry.status = "completed"

\* C19: a retryEmail call on a manual-review record whose LLM call succeeds
\* writes pending, then processing, then completed, and leaves
\* deliveryStatus sent exactly when the gateway reported success in this
\* call and failed exactly when it reported failure.
C19_RetryReflectsDelivery ==
    (/\ RunOver
     /\ run.op = "retry"
     /\ run.startStatus = "manual-review"
     /\ run.llmResult = "ok")
        => /\ trail = <<"pending", "processing", "completed">>
           /\ entry.status = "completed"
           /\ entry.deliveryStatus = "sent" <=> run.send = "sent"
           /\ entry.deliveryStatus = "failed" <=> run.send = "failed"

C19_Witness ==
    /\ RunOver
    /\ run.op = "retry"
    /\ run.startStatus = "manual-review"
    /\ run.send = "sent"
    /\ entry.deliveryStatus = "sent"

\* C20: when a processEmail call has returned failed or manual-review, the
\* record's stored state has that status, an error message, and the
\* processedAt timestamp of this call.
C20_FailurePersisted ==
    (RunOver /\ run.returned \in {"failed", "manual-review"})
        => /\ entry.status = run.returned
           /\ entry.error \notin {Absent, ""}
           /\ entry.processedAt = Timestamp(calls)

C20_Witness ==
    /\ RunOver
    /\ calls = 2
    /\ run.returned = "failed"
    /\ run.llmResult = "timeout"
    /\ entry.processedAt = "2"

\* ------------------------------------------------------------------------
\* Properties of the delivery gateway
\* ------------------------------------------------------------------------

\* the sendResponse call has returned
SendOver == sendCall.pc = "done"

\* C21 as stated: with email sending disabled, sendResponse transmits
\* nothing and returns a success result.
C21_DisabledIsSuccess ==
    (SendOver /\ ~emailService.enabled)
        => ~sendCall.transmitted /\ sendCall.success

\* C21 amended: with email sending disabled, sendResponse transmits nothing
\* and returns a failure result whose error says that sending is disabled.
C21_DisabledIsFailure ==
    ~emailService.enabled
        => /\ ~sendCall.transmitted
           /\ SendOver => /\ ~sendCall.success
                           /\ sendCall.error = "Email sending is disabled"

C21_Witness ==
    /\ SendOver
    /\ ~emailService.enabled
    /\ toEmail # <<>>

\* the address contains an entry of the block list
ContainsBlocked ==
    \E blocked \in emailService.blockedDomains : Includes(toEmail, blocked)

\* the address matches an entry of the allow list, whatever the case of
\* its letters
MatchesAllowed ==
    \E allowed \in emailService.allowedDomains :
        Includes(ToLowerCase(toEmail), ToLowerCase(allowed))

\* C22: nothing is transmitted to an address that contains a block-list
\* entry, whether or not it matches the allow list, nor, with a non-empty
\* allow list, to an address that does not match it; a gateway that is
\* ready to send answers such an address with a failure and a reason.
C22_DomainPolicy ==
    (\/ ContainsBlocked
     \/ emailService.allowedDomains # {} /\ ~MatchesAllowed)
        => /\ ~sendCall.transmitted
           /\ (SendOver /\ NotReady(emailService) = Absent)
                 => ~sendCall.success /\ sendCall.error = "Email blocked"

\* ------------------------------------------------------------------------
\* Properties of the markdown renderer
\* ------------------------------------------------------------------------

\* the lines of the markdown text that was rendered
Lines == Split(rendering.markdown, "\n")

\* C23: rendering the empty markdown text emits no block and yields the
\* empty HTML string.
C23_EmptyToEmpty ==
    (rendering.done /\ rendering.markdown = <<>>)
        => Len(rendering.blocks) = 0 /\ Len(rendering.html) = 0

\* a separator line as the claim describes it: dashes, with colons, pipes
\* and blanks allowed between them
DashSeparator(line) ==
    /\ \E j \in 1..Len(line) : line[j] = "-"
    /\ \A j \in 1..Len(line) : line[j] \in {"-", ":", "|", " "}

\* C24: a pipe-led first line becomes a table block only if the line right
\* after it is a separator line of dashes; followed by anything else, or by
\* nothing, it becomes a paragraph block holding the line.
C24_TableNeedsSeparator ==
    (rendering.done /\ IsTableLine(Lines[1]))
        => IF Len(Lines) >= 2 /\ DashSeparator(Lines[2])
           THEN TRUE
           ELSE /\ rendering.blocks[1].type = "p"
                /\ rendering.blocks[1].text = Lines[1]

\* a plain paragraph line: not blank, no heading, list item, pipe-led line
\* or rule
IsPlain(line) ==
    /\ ~IsBlank(line)
    /\ HeadingPrefix(line, <<"#", "#">>) = 0
    /\ HeadingPrefix(line, <<"#", "#", "#">>) = 0
    /\ ListPrefix(line, FALSE) = 0
    /\ ListPrefix(line, TRUE) = 0
    /\ ~IsTableLine(line)
    /\ ~IsRule(line)

\* the lines 1..n joined by single blanks
RECURSIVE JoinLines(_)
JoinLines(n) ==
    IF n = 1 THEN Lines[1] ELSE JoinLines(n - 1) \o <<" ">> \o Lines[n]

C26_IngestionKeepsState ==
    [][ingestLog'.last
           \in {"poll", "sync", "forceRefresh", "manualAdd"}
         => \A id \in allEmails :
               statusKey'[id].status = statusKey[id].status]_vars

\* C27: the watermark never decreases, and it is never lower than the
\* historyId of a record of the tracking set.
C27_WatermarkMonotonic ==
    /\ [](\A id \in allEmails : historyId[id] <= lastHistoryId)
    /\ [][lastHistoryId' >= lastHistoryId]_vars

\* ------------------------------------------------------------------------
\* Properties of sweeps against a failing store
\* ------------------------------------------------------------------------

\* C28: when no sweep is under way, however the sweeps before ended, the
\* sweep flag is false and the working set is empty, so the next
\* processQueue call is not rejected.
C28_SweepCleansUp ==
    (\A t \in Tasks : ~SweepActive(t))
        => /\ ~isProcessing
           /\ currentlyProcessing = {}
           /\ ~SweepRejected

C28_Witness ==
    /\ \A t \in Tasks : ~SweepActive(t)
    /\ \E t \in Tasks :
          /\ task[t].kind = "sweep"
          /\ task[t].outcome = "error"
          /\ task[t].id # NoId

\* ------------------------------------------------------------------------
\* Properties of the store entries
\* ------------------------------------------------------------------------

\* C29: an id without a stored email record has no status entry and is not
\* in the processing queue, whatever was called with it (records are never
\* deleted, so such an id never had a record).
C29_MissingWritesNothing ==
    \A id \in EmailIds \ emailKey :
        /\ statusKey[id].status = Absent
        /\ id \notin processingQueue

\* C30: when a request has gone through its updateEmailStatus calls and no
\* other request is in flight, its record is in the processing queue only
\* if the stored status of the record is processing.
C30_QueueHoldsProcessing ==
    \A t \in Tasks :
        (task[t].pc = "done" /\ Alone(t)
           /\ task[t].id \in processingQueue)
            => statusKey[task[t].id].status = "processing"

====
